---- MODULE Spec2Model ----
(***************************************************************************)
(* A model of src/datasets/__init__.py: the cyclic Iterator over a loader, *)
(* apply_augmentation, the transform builders and                          *)
(* get_train_sampler_and_shuffler.                                         *)
(*                                                                         *)
(* Python values are modelled by what the claims can observe of them:      *)
(*   - str is a TLA+ string; `a in b` on strings is substring search       *)
(*     (Contains) and str.startswith is StartsWith;                        *)
(*   - None, bool and the objects built are records tagged with their type;*)
(*   - a transform step is a record [name, args]; transforms.Compose and   *)
(*     tuples are records tagged with their type;                          *)
(*   - a numpy float is a record: a ratio num/den, +inf, or NaN.           *)
(***************************************************************************)
EXTENDS Integers, Sequences, FiniteSets, TLC

VARIABLES
  loader,      \* Iterator.loader: the items one pass of the loader yields
  iterator,    \* Iterator.iterator: index of the next item of the current pass
  data,        \* what the last Iterator.get() returned
  raised,      \* TRUE once a StopIteration left Iterator.get()
  ngets,       \* number of Iterator.get() calls made
  ninits,      \* number of Iterator.init() calls made (the constructor's included)
  samplerCall, \* the last call of get_train_sampler_and_shuffler and its outcome
  built,       \* the last call of a transform builder and what it returned
  augmented    \* the last call of apply_augmentation and what it returned

vars == <<loader, iterator, data, raised, ngets, ninits, samplerCall, built, augmented>>

None == [type |-> "NoneType"]

PyBool(b) == [type |-> "bool", value |-> b]

PyInt(n) == [type |-> "int", value |-> n]

\* a tuple object
Tuple(items) == [type |-> "tuple", items |-> items]

\* bool(v) for the values modelled: None is falsy
Truthy(v) == v.type = "bool" /\ v.value

NoCall == [fn |-> "none"]

(***************************************************************************)
(* Bounds of the model.                                                    *)
(***************************************************************************)
MaxLen == 3

MaxCalls == 8

MaxSamples == 3

MaxClip == 3

Items == {"a", "b"}

ClassNames == <<"c1", "c2">>

SeedValues == {0, 1}

\* image, crop and mask sizes tried
Sizes == {4, 8}

\* probabilities tried, in thousandths
Probs == {500, 1000}

\* the flags an augment string is built from
AugmentFlags ==
  <<"flip", "rotation", "elastic", "qnorm", "clahe", "colorjitter", "randaugment",
    "cutmix", "mixup", "cutormixup">>

(***************************************************************************)
(* Python's str operations.                                                *)
(***************************************************************************)
\* `sub in s` for two str
Contains(sub, s) ==
  \E i \in 0 .. (Len(s) - Len(sub)) : SubSeq(s, i + 1, i + Len(sub)) = sub

\* s.startswith(prefix)
StartsWith(s, prefix) ==
  /\ Len(s) >= Len(prefix)
  /\ SubSeq(s, 1, Len(prefix)) = prefix

(***************************************************************************)
(* class Iterator                                                          *)
(***************************************************************************)
Loaders == UNION { [1 .. n -> Items] : n \in 0 .. MaxLen }

\* a pass that is already exhausted
Iterator_init_exhausted(l) == Len(l) + 1

\* Iterator.init: iter(self.loader), a fresh pass positioned on the first item
Iterator_init(l) == 1

\* next(self.iterator): the item, or StopIteration when the pass is exhausted
StopIteration(l, it) == it > Len(l)

\* Iterator.get with the except branch lost: StopIteration leaves get()
Iterator_get_nocatch ==
  /\ ngets < MaxCalls
  /\ ngets' = ngets + 1
  /\ IF ~StopIteration(loader, iterator)
       THEN /\ data' = loader[iterator]
            /\ iterator' = iterator + 1
            /\ UNCHANGED <<raised, ninits>>
       ELSE /\ raised' = TRUE
            /\ UNCHANGED <<data, iterator, ninits>>
  /\ UNCHANGED <<loader, samplerCall, built, augmented>>

Iterator_get ==
  /\ ngets < MaxCalls
  /\ ngets' = ngets + 1
  /\ IF ~StopIteration(loader, iterator)
       THEN /\ data' = loader[iterator]
            /\ iterator' = iterator + 1
            /\ UNCHANGED <<raised, ninits>>
       ELSE LET fresh == Iterator_init(loader) IN
            /\ ninits' = ninits + 1
            /\ IF ~StopIteration(loader, fresh)
                 THEN /\ data' = loader[fresh]
                      /\ iterator' = fresh + 1
                      /\ UNCHANGED raised
                 ELSE /\ raised' = TRUE
                      /\ iterator' = fresh
                      /\ UNCHANGED data
  /\ UNCHANGED <<loader, samplerCall, built, augmented>>

InitIterator ==
  /\ loader \in Loaders
  /\ iterator = Iterator_init(loader)
  /\ data = None
  /\ raised = FALSE
  /\ ngets = 0
  /\ ninits = 1
  /\ samplerCall = NoCall
  /\ built = NoCall
  /\ augmented = NoCall

NextIterator == Iterator_get

SpecIterator == InitIterator /\ [][NextIterator]_vars

(***************************************************************************)
(* Claims about Iterator (checked under SpecIterator).                     *)
(***************************************************************************)
\* C2 as stated: for any loader with n items (n = 0 included), no
\* StopIteration ever reaches the caller of get().
C2_NoStopIterationAnyLoader == ~raised

\* C2 amended: for a loader that yields n >= 1 items on every pass, no
\* StopIteration ever reaches the caller and every get() returns an item of
\* the loader.
C2_NoStopIterationNonEmpty ==
  Len(loader) >= 1 =>
    /\ ~raised
    /\ ngets >= 1 => \E i \in 1 .. Len(loader) : data = loader[i]

\* C2 witness: a non-empty loader was exhausted and get() went on returning.
C2_Witness ==
  /\ Len(loader) >= 1
  /\ ngets > 2 * Len(loader)
  /\ ~raised
  /\ data = loader[1]

\* C3: for a loader with n >= 1 items, the k-th get() of a fresh Iterator
\* returns item (k-1) mod n (so call n+1 returns the first item again), and
\* the iteration has been re-initialized once per exhausted pass:
\* (k-1) div n times after the constructor's own init.
C3_KthGetIsCyclic ==
  (Len(loader) >= 1 /\ ngets >= 1) =>
    /\ data = loader[((ngets - 1) % Len(loader)) + 1]
    /\ ninits = 1 + ((ngets - 1) \div Len(loader))

\* C3 witness: call len(loader)+1 returned the first item again, after one
\* re-initialization, on a loader whose second item differs from its first.
C3_Witness ==
  /\ Len(loader) >= 2
  /\ loader[1] # loader[2]
  /\ ngets = Len(loader) + 1
  /\ data = loader[1]
  /\ ninits = 2

(***************************************************************************)
(* numpy floats: a ratio of two integers, +inf or NaN.  The values that    *)
(* occur are quotients of small counts, which float64 orders as the        *)
(* rationals are ordered.                                                  *)
(***************************************************************************)
Num(n, d) == [kind |-> "num", num |-> n, den |-> d]

Inf == [kind |-> "inf"]

NaN == [kind |-> "nan"]

\* a / b for two non-negative integers a, b, as numpy divides (x/0 is inf, 0/0 is nan)
TrueDiv(a, b) ==
  IF b # 0 THEN Num(a, b)
  ELSE IF a = 0 THEN NaN ELSE Inf

\* l * x for an integer label l in {0, 1} and a float x (0 * inf is nan)
Mul(l, x) ==
  CASE x.kind = "nan" -> NaN
    [] x.kind = "inf" -> IF l = 0 THEN NaN ELSE Inf
    [] OTHER -> Num(l * x.num, x.den)

\* a <= b on floats: FALSE when either is NaN
FLeq(a, b) ==
  CASE a.kind = "nan" \/ b.kind = "nan" -> FALSE
    [] b.kind = "inf" -> TRUE
    [] a.kind = "inf" -> FALSE
    [] OTHER -> a.num * b.den <= b.num * a.den

\* a == b on floats: FALSE when either is NaN
FEq(a, b) == FLeq(a, b) /\ FLeq(b, a)

\* numpy's maximum of two floats: NaN propagates
FMax(a, b) ==
  CASE a.kind = "nan" \/ b.kind = "nan" -> NaN
    [] FLeq(a, b) -> b
    [] OTHER -> a

\* x.clip(max=c) for an integer c: NaN stays NaN
Clip(x, c) ==
  CASE x.kind = "nan" -> NaN
    [] FLeq(x, Num(c, 1)) -> x
    [] OTHER -> Num(c, 1)

RECURSIVE SumTo(_, _)
\* f[1] + ... + f[n]
SumTo(f, n) == IF n = 0 THEN 0 ELSE SumTo(f, n - 1) + f[n]

RECURSIVE IntMaxTo(_, _)
\* the largest of the integers f[1] .. f[n], n >= 1
IntMaxTo(f, n) ==
  IF n = 1 THEN f[1]
  ELSE LET m == IntMaxTo(f, n - 1) IN IF f[n] > m THEN f[n] ELSE m

RECURSIVE FMaxTo(_, _)
\* the numpy maximum of the floats f[1] .. f[n], n >= 1
FMaxTo(f, n) == IF n = 1 THEN f[1] ELSE FMax(FMaxTo(f, n - 1), f[n])

(***************************************************************************)
(* get_train_sampler_and_shuffler                                          *)
(***************************************************************************)
NumClasses == Len(ClassNames)

\* a label vector: one 0/1 entry per class
LabelVectors == [1 .. NumClasses -> {0, 1}]

\* a data source: sample_ids are 1 .. Len(labels), get_label(i) is labels[i]
CustomDataSource(labels) == [type |-> "CustomDataSource", labels |-> labels]

Sources == { CustomDataSource(l) : l \in UNION { [1 .. n -> LabelVectors] : n \in 1 .. MaxSamples } }

Seeds == { PyInt(n) : n \in SeedValues }

\* len(source)
SourceLen(source) == Len(source.labels)

\* clip_value: int = 10
DefaultClip == 10

ClipValues == (1 .. MaxClip) \cup {DefaultClip}

SAMPLERS == <<"default", "balanced-sample", "balanced-class">>

\* the sampler strings tried: the three known ones and unknown ones, some of
\* which start with "balanced" or differ from a known one by case or a suffix
SamplerStrings ==
  {SAMPLERS[i] : i \in 1 .. Len(SAMPLERS)}
    \cup {"balanced", "balanced-classes", "Default", "random"}

RECURSIVE ReprItems(_, _)
\* "'a', 'b', 'c'" for the first n strings of t
ReprItems(t, n) ==
  IF n = 0 THEN ""
  ELSE IF n = 1 THEN "'" \o t[1] \o "'"
  ELSE ReprItems(t, n - 1) \o ", '" \o t[n] \o "'"

\* repr of a tuple of two or more str
Repr(t) == "(" \o ReprItems(t, Len(t)) \o ")"

\* a validation that accepts any name with a known prefix
IsKnownSampler_prefix(sampler) ==
  sampler = "default" \/ StartsWith(sampler, "balanced")

\* sampler in SAMPLERS
IsKnownSampler(sampler) == \E i \in 1 .. Len(SAMPLERS) : SAMPLERS[i] = sampler

UnknownSamplerMessage(sampler) ==
  "Unknown sampler '" \o sampler \o "'. Known samplers are: " \o Repr(SAMPLERS) \o "."

\* freq = labels.sum(0, keepdims=True)
Freq(labels) ==
  [c \in 1 .. NumClasses |-> SumTo([i \in 1 .. Len(labels) |-> labels[i][c]], Len(labels))]

\* weights = (labels * (freq.max()/freq)).max(1).clip(max=clip_value)
BalancedClassWeights(labels, clip_value) ==
  LET freq == Freq(labels)
      ratio == [c \in 1 .. NumClasses |-> TrueDiv(IntMaxTo(freq, NumClasses), freq[c])]
  IN [i \in 1 .. Len(labels) |->
        Clip(FMaxTo([c \in 1 .. NumClasses |-> Mul(labels[i][c], ratio[c])], NumClasses),
             clip_value)]

\* compute_sample_weight("balanced", labels): sklearn's, kept opaque
BalancedSampleWeights(labels) ==
  [type |-> "compute_sample_weight", class_weight |-> "balanced", y |-> labels]

\* generator = torch.Generator(); if seed is not None: generator.manual_seed(seed)
Generator(seed) == [type |-> "Generator", seed |-> seed]

WeightedRandomSampler(weights, num_samples, replacement, generator) ==
  [type |-> "WeightedRandomSampler", weights |-> weights, num_samples |-> num_samples,
   replacement |-> replacement, generator |-> generator]

\* a return that also asks the loader to shuffle
BalancedReturn_shuffle(weights, source, generator) ==
  Tuple(<<WeightedRandomSampler(weights, SourceLen(source), TRUE, generator), PyBool(TRUE)>>)

\* return (WeightedRandomSampler(weights, len(source), replacement=True, generator=generator), None)
BalancedReturn(weights, source, generator) ==
  Tuple(<<WeightedRandomSampler(weights, SourceLen(source), TRUE, generator), None>>)

\* The outcome of one call: the exception raised ("none" when it returns),
\* its message, the value returned, the number of source.get_label calls,
\* the generator created and the weights computed.
Outcome(exc, msg, ret, nread, gen, weights) ==
  [raised |-> exc, message |-> msg, ret |-> ret, labels_read |-> nread,
   generator |-> gen, weights |-> weights]

get_train_sampler_and_shuffler(sampler, source, seed, clip_value) ==
  IF ~IsKnownSampler(sampler)
    THEN Outcome("ValueError", UnknownSamplerMessage(sampler), None, 0, None, None)
  ELSE IF sampler = "default"
    THEN Outcome("none", "", Tuple(<<None, PyBool(TRUE)>>), 0, None, None)
  ELSE IF StartsWith(sampler, "balanced")
    THEN IF source = None
      THEN Outcome("AttributeError", "'NoneType' object has no attribute 'sample_ids'",
                   None, 0, None, None)
      ELSE LET labels == source.labels
               weights == IF sampler = "balanced-sample" THEN BalancedSampleWeights(labels)
                          ELSE IF sampler = "balanced-class"
                            THEN BalancedClassWeights(labels, clip_value)
                          ELSE None
               generator == Generator(seed)
           IN IF sampler \notin {"balanced-sample", "balanced-class"}
                THEN Outcome("UnboundLocalError", "weights", None, SourceLen(source), generator, None)
                ELSE Outcome("none", "", BalancedReturn(weights, source, generator),
                             SourceLen(source), generator, weights)
  ELSE Outcome("none", "", None, 0, None, None)

\* one call of get_train_sampler_and_shuffler; the function keeps no state
\* between calls, so a behaviour is a single call
CallSampler ==
  /\ samplerCall = NoCall
  /\ \E sampler \in SamplerStrings, source \in Sources \cup {None},
        seed \in Seeds \cup {None}, clip_value \in ClipValues :
       samplerCall' =
         [fn |-> "get_train_sampler_and_shuffler", sampler |-> sampler, source |-> source,
          seed |-> seed, clip_value |-> clip_value,
          out |-> get_train_sampler_and_shuffler(sampler, source, seed, clip_value)]
  /\ UNCHANGED <<loader, iterator, data, raised, ngets, ninits, built, augmented>>

InitIdle ==
  /\ loader = <<>>
  /\ iterator = Iterator_init(loader)
  /\ data = None
  /\ raised = FALSE
  /\ ngets = 0
  /\ ninits = 1
  /\ samplerCall = NoCall
  /\ built = NoCall
  /\ augmented = NoCall

NextSampler == CallSampler

SpecSampler == InitIdle /\ [][NextSampler]_vars

(***************************************************************************)
(* Claims about get_train_sampler_and_shuffler (checked under SpecSampler).*)
(***************************************************************************)
Called == samplerCall.fn = "get_train_sampler_and_shuffler"

\* the call ran the balanced-class weighting on a data source
BalancedClassCalled ==
  /\ Called
  /\ samplerCall.sampler = "balanced-class"
  /\ samplerCall.source # None

\* C1 as stated: for sampler="balanced-class" and every 0/1 label matrix
\* (samples with no active class and classes of zero frequency included),
\* every weight is <= clip_value and >= 1.
C1_WeightsWithinBounds ==
  BalancedClassCalled =>
    \A i \in 1 .. SourceLen(samplerCall.source) :
      /\ FLeq(samplerCall.out.weights[i], Num(samplerCall.clip_value, 1))
      /\ FLeq(Num(1, 1), samplerCall.out.weights[i])

\* the classes active in a label vector
Active(v) == {c \in 1 .. NumClasses : v[c] = 1}

\* C9 as stated: for sampler="balanced-class" each sample's weight equals
\* min(clip_value, max over its active classes c of F / freq[c]), so samples
\* with the same label vector get the same weight.  (Stated for the samples
\* that have an active class: the maximum over no class is not defined.)
C9_WeightFormula ==
  BalancedClassCalled =>
    LET labels == samplerCall.source.labels
        w == samplerCall.out.weights
        freq == [c \in 1 .. NumClasses |-> Cardinality({i \in 1 .. Len(labels) : labels[i][c] = 1})]
        F == CHOOSE f \in {freq[c] : c \in 1 .. NumClasses} :
               \A c \in 1 .. NumClasses : freq[c] <= f
    IN /\ \A i \in 1 .. Len(labels) :
            Active(labels[i]) # {} =>
              \E c \in Active(labels[i]) :
                /\ \A d \in Active(labels[i]) : F * freq[c] <= F * freq[d]
                /\ IF F <= samplerCall.clip_value * freq[c]
                     THEN FEq(w[i], Num(F, freq[c]))
                     ELSE FEq(w[i], Num(samplerCall.clip_value, 1))
       /\ \A i, j \in 1 .. Len(labels) :
            (labels[i] = labels[j] /\ Active(labels[i]) # {}) => FEq(w[i], w[j])

\* C6: a sampler string outside the three known names raises a ValueError
\* whose message names the string, before any label is read and before any
\* sampler or generator is created; the three known names raise no ValueError.
C6_UnknownSamplerRejected ==
  Called =>
    IF samplerCall.sampler \in {"default", "balanced-sample", "balanced-class"}
      THEN samplerCall.out.raised # "ValueError"
      ELSE /\ samplerCall.out.raised = "ValueError"
           /\ Contains("'" \o samplerCall.sampler \o "'", samplerCall.out.message)
           /\ samplerCall.out.labels_read = 0
           /\ samplerCall.out.generator = None
           /\ samplerCall.out.weights = None
           /\ samplerCall.out.ret = None

\* C6 witness: an unknown name that starts with "balanced" was rejected while
\* a data source was at hand.
C6_Witness ==
  /\ Called
  /\ samplerCall.sampler = "balanced-classes"
  /\ samplerCall.source # None
  /\ samplerCall.out.raised = "ValueError"
  /\ samplerCall.out.message =
       "Unknown sampler 'balanced-classes'. Known samplers are: ('default', 'balanced-sample', 'balanced-class')."

\* C8: sampler="default" returns (None, True) whatever source, seed and
\* clip_value are, reading no label; each balanced sampler, given a data
\* source, returns a WeightedRandomSampler with replacement=True drawing
\* len(source) samples, and a shuffle flag that is falsy.
C8_ReturnShape ==
  Called =>
    /\ samplerCall.sampler = "default" =>
         /\ samplerCall.out.raised = "none"
         /\ samplerCall.out.ret = Tuple(<<None, PyBool(TRUE)>>)
         /\ samplerCall.out.labels_read = 0
    /\ (samplerCall.sampler \in {"balanced-sample", "balanced-class"}
          /\ samplerCall.source # None) =>
         /\ samplerCall.out.raised = "none"
         /\ samplerCall.out.ret.type = "tuple"
         /\ Len(samplerCall.out.ret.items) = 2
         /\ samplerCall.out.ret.items[1].type = "WeightedRandomSampler"
         /\ samplerCall.out.ret.items[1].replacement = TRUE
         /\ samplerCall.out.ret.items[1].num_samples = SourceLen(samplerCall.source)
         /\ ~Truthy(samplerCall.out.ret.items[2])

\* C8 witness: a seeded balanced-class call on three samples returned a
\* sampler drawing three samples.
C8_Witness ==
  /\ BalancedClassCalled
  /\ samplerCall.seed = PyInt(1)
  /\ SourceLen(samplerCall.source) = MaxSamples
  /\ samplerCall.out.ret.items[1].num_samples = MaxSamples
  /\ samplerCall.out.ret.items[1].generator = Generator(PyInt(1))
  /\ samplerCall.out.ret.items[2] = None

(***************************************************************************)
(* Augment strings: every subset of AugmentFlags, joined by "_".           *)
(***************************************************************************)
RECURSIVE JoinFlags(_, _)
\* the flags f[1] .. f[n] selected by mask, joined by "_"
JoinFlags(mask, n) ==
  IF n = 0 THEN ""
  ELSE LET head == JoinFlags(mask, n - 1) IN
       IF ~mask[n] THEN head
       ELSE IF head = "" THEN AugmentFlags[n]
       ELSE head \o "_" \o AugmentFlags[n]

Augments ==
  { JoinFlags(mask, Len(AugmentFlags)) : mask \in [1 .. Len(AugmentFlags) -> BOOLEAN] }

(***************************************************************************)
(* apply_augmentation                                                      *)
(***************************************************************************)
ClassificationDataset == [type |-> "ClassificationDataset"]

CutOrMixUp(dataset, image_size, num_mix, beta, prob) ==
  [type |-> "CutOrMixUp", dataset |-> dataset, image_size |-> image_size,
   num_mix |-> num_mix, beta |-> beta, prob |-> prob]

CutMix(dataset, image_size, num_mix, beta, prob) ==
  [type |-> "CutMix", dataset |-> dataset, image_size |-> image_size,
   num_mix |-> num_mix, beta |-> beta, prob |-> prob]

MixUp(dataset, num_mix, beta, prob) ==
  [type |-> "MixUp", dataset |-> dataset, num_mix |-> num_mix, beta |-> beta, prob |-> prob]

\* apply_augmentation with the else lost: the cutmix and mixup tests also run
\* after cutormixup was applied
apply_augmentation_noelse(dataset, augment, image_size, cutmix_prob, mixup_prob) ==
  LET d0 == IF Contains("cutormixup", augment)
              THEN CutOrMixUp(dataset, image_size, 1, 1, cutmix_prob)
              ELSE dataset
      d1 == IF Contains("cutmix", augment)
              THEN CutMix(d0, image_size, 1, 1, cutmix_prob)
              ELSE d0
  IN IF Contains("mixup", augment) THEN MixUp(d1, 1, 1, mixup_prob) ELSE d1

apply_augmentation(dataset, augment, image_size, cutmix_prob, mixup_prob) ==
  IF Contains("cutormixup", augment)
    THEN CutOrMixUp(dataset, image_size, 1, 1, cutmix_prob)
    ELSE LET d1 == IF Contains("cutmix", augment)
                     THEN CutMix(dataset, image_size, 1, 1, cutmix_prob)
                     ELSE dataset
         IN IF Contains("mixup", augment) THEN MixUp(d1, 1, 1, mixup_prob) ELSE d1

\* one call of apply_augmentation; it keeps no state between calls
CallApplyAugmentation ==
  /\ augmented = NoCall
  /\ \E augment \in Augments, image_size \in Sizes, cutmix_prob \in Probs, mixup_prob \in Probs :
       augmented' =
         [fn |-> "apply_augmentation", augment |-> augment, image_size |-> image_size,
          cutmix_prob |-> cutmix_prob, mixup_prob |-> mixup_prob,
          ret |-> apply_augmentation(ClassificationDataset, augment, image_size,
                                     cutmix_prob, mixup_prob)]
  /\ UNCHANGED <<loader, iterator, data, raised, ngets, ninits, samplerCall, built>>

NextAugment == CallApplyAugmentation

SpecAugment == InitIdle /\ [][NextAugment]_vars

(***************************************************************************)
(* Claims about apply_augmentation (checked under SpecAugment).            *)
(***************************************************************************)
RECURSIVE Wrappers(_)
\* the types of the wrappers around the dataset, outermost first
Wrappers(d) ==
  IF d.type = "ClassificationDataset" THEN <<>> ELSE <<d.type>> \o Wrappers(d.dataset)

\* C10: with "cutormixup" in augment the dataset is wrapped exactly once, by
\* CutOrMixUp; otherwise CutMix is applied iff augment contains "cutmix" and
\* MixUp iff it contains "mixup", MixUp outermost when both; with none of the
\* three flags the dataset is returned unchanged.
C10_AugmentationWrappers ==
  augmented.fn = "apply_augmentation" =>
    LET a == augmented.augment
        w == Wrappers(augmented.ret)
    IN IF Contains("cutormixup", a) THEN w = <<"CutOrMixUp">>
       ELSE /\ Contains("cutmix", a) /\ Contains("mixup", a) => w = <<"MixUp", "CutMix">>
            /\ Contains("cutmix", a) /\ ~Contains("mixup", a) => w = <<"CutMix">>
            /\ ~Contains("cutmix", a) /\ Contains("mixup", a) => w = <<"MixUp">>
            /\ ~Contains("cutmix", a) /\ ~Contains("mixup", a) =>
                 augmented.ret = ClassificationDataset

\* C10 witness: augment is "cutormixup" alone (which contains "mixup") and the
\* dataset came back wrapped by CutOrMixUp only.
C10_Witness ==
  /\ augmented.fn = "apply_augmentation"
  /\ augmented.augment = "cutormixup"
  /\ Contains("mixup", augmented.augment)
  /\ augmented.ret.type = "CutOrMixUp"
  /\ augmented.ret.dataset = ClassificationDataset

(***************************************************************************)
(* The transform builders.  A step is [name, args]; per-channel statistics *)
(* are in thousandths.                                                     *)
(***************************************************************************)
Step(name, args) == [name |-> name, args |-> args]

\* transforms.Compose(steps)
Compose(steps) == [type |-> "Compose", transforms |-> steps]

\* a plain list of steps
List(steps) == [type |-> "list", items |-> steps]

imagenet_stats == <<<<485, 456, 406>>, <<229, 224, 225>>>>

CustomStats == <<<<500, 500, 500>>, <<250, 250, 250>>>>

\* the normalize_stats arguments tried: None or a (mean, std) pair
StatsArgs == {None, Tuple(CustomStats)}

\* if normalize_stats is None: normalize_stats = imagenet_stats()
StatsOrDefault(normalize_stats) ==
  IF normalize_stats = None THEN imagenet_stats ELSE normalize_stats.items

\* the two lists left as they are
ComposePair_raw(tt, tv) == Tuple(<<List(tt), List(tv)>>)

\* tuple(map(transforms.Compose, (tt, tv)))
ComposePair(tt, tv) == Tuple(<<Compose(tt), Compose(tv)>>)

\* the crop added whatever augment holds
ClassificationCrop_always(augment, crop_size) == <<Step("RandomCrop", <<crop_size>>)>>

\* if 'cutmix' not in augment: tt += [RandomCrop(crop_size)]
ClassificationCrop(augment, crop_size) ==
  IF ~Contains("cutmix", augment) THEN <<Step("RandomCrop", <<crop_size>>)>> ELSE <<>>

\* the steps `steps` when flag is in augment
When(flag, augment, steps) == IF Contains(flag, augment) THEN steps ELSE <<>>

\* the training chain of get_classification_transforms
ClassificationTrain(min_size, max_size, crop_size, augment, stats) ==
  (IF min_size = max_size
     THEN <<Step("transforms.Resize", <<min_size, min_size>>)>>
     ELSE <<Step("RandomResize", <<min_size, max_size>>)>>)
  \o When("flip", augment,
          <<Step("transforms.RandomHorizontalFlip", <<500>>),
            Step("transforms.RandomVerticalFlip", <<500>>)>>)
  \o When("rotation", augment, <<Step("transforms.RandomRotation", <<0, 90>>)>>)
  \o When("elastic", augment,
          <<Step("transforms.RandomApply",
                 <<Step("transforms.ElasticTransform", <<50, 5>>), 500>>)>>)
  \o When("qnorm", augment, <<Step("QuantileChannelIndependentNormalization", <<>>)>>)
  \o When("clahe", augment, <<Step("CLAHE", <<>>)>>)
  \o When("colorjitter", augment, <<Step("transforms.ColorJitter", <<300, 300, 300, 100>>)>>)
  \o When("randaugment", augment, <<Step("RandAugmentMC", <<2, 10>>)>>)
  \o <<Step("Normalize", stats)>>
  \o ClassificationCrop(augment, crop_size)
  \o <<Step("Transpose", <<>>)>>

\* the evaluation chain of get_classification_transforms
ClassificationEval(min_size, max_size, crop_size, augment, stats) ==
  (IF min_size = max_size
     THEN <<Step("Resize_For_Segmentation", <<min_size, min_size>>)>>
     ELSE <<Step("Resize_For_Segmentation", <<crop_size>>)>>)
  \o When("qnorm", augment, <<Step("QuantileChannelIndependentNormalization", <<>>)>>)
  \o When("clahe", augment, <<Step("CLAHE", <<>>)>>)
  \o <<Step("Normalize_For_Segmentation", stats),
       Step("Top_Left_Crop_For_Segmentation", <<crop_size>>),
       Step("Transpose_For_Segmentation", <<>>)>>

\* get_classification_transforms with the crop appended after the transposition
get_classification_transforms_croplast(min_size, max_size, crop_size, augment, normalize_stats) ==
  LET stats == StatsOrDefault(normalize_stats)
      tt == ClassificationTrain(min_size, max_size, crop_size, augment, stats)
  IN ComposePair(
       IF Contains("cutmix", augment) THEN tt
       ELSE SubSeq(tt, 1, Len(tt) - 2) \o <<tt[Len(tt)], tt[Len(tt) - 1]>>,
       ClassificationEval(min_size, max_size, crop_size, augment, stats))

get_classification_transforms(min_size, max_size, crop_size, augment, normalize_stats) ==
  LET stats == StatsOrDefault(normalize_stats)
  IN ComposePair(ClassificationTrain(min_size, max_size, crop_size, augment, stats),
                 ClassificationEval(min_size, max_size, crop_size, augment, stats))

\* get_inference_transforms returns the list itself, not composed
get_inference_transforms(augment, normalize_stats) ==
  LET stats == StatsOrDefault(normalize_stats)
  IN List(When("qnorm", augment, <<Step("QuantileChannelIndependentNormalization", <<>>)>>)
          \o <<Step("Normalize", stats), Step("Transpose", <<>>)>>)

get_affinity_transforms(min_image_size, max_image_size, crop_size, overcrop, normalize_stats) ==
  LET stats == StatsOrDefault(normalize_stats)
  IN Compose(
       <<Step("RandomResize_For_Segmentation", <<min_image_size, max_image_size, overcrop>>),
         Step("RandomHorizontalFlip_For_Segmentation", <<>>),
         Step("Normalize_For_Segmentation", stats),
         Step("RandomCrop_For_Segmentation", <<crop_size>>),
         Step("Transpose_For_Segmentation", <<>>),
         Step("ResizeMask", <<crop_size \div 4>>)>>)

get_segmentation_transforms(min_size, max_size, crop_size, augment, overcrop, normalize_stats) ==
  LET stats == StatsOrDefault(normalize_stats)
      tt == <<Step("RandomResize_For_Segmentation", <<min_size, max_size, overcrop>>),
              Step("RandomHorizontalFlip_For_Segmentation", <<>>)>>
            \o When("colorjitter", augment,
                    <<Step("ApplyToImage",
                           <<Step("transforms.ColorJitter", <<300, 300, 300, 100>>)>>)>>)
            \o When("clahe", augment, <<Step("CLAHE", <<>>)>>)
            \o <<Step("Normalize_For_Segmentation", stats),
                 Step("RandomCrop_For_Segmentation", <<crop_size>>),
                 Step("Transpose_For_Segmentation", <<>>)>>
      tv == <<Step("Resize_For_Segmentation", <<crop_size>>)>>
            \o When("clahe", augment, <<Step("CLAHE", <<>>)>>)
            \o <<Step("Normalize_For_Segmentation", stats),
                 Step("Top_Left_Crop_For_Segmentation", <<crop_size>>),
                 Step("Transpose_For_Segmentation", <<>>)>>
  IN ComposePair(tt, tv)

get_ccam_transforms(image_size, crop_size, normalize_stats) ==
  LET stats == StatsOrDefault(normalize_stats)
      size == <<image_size, image_size>>
      resize == Step("Resize_For_Segmentation", <<size, Step("transforms.Resize", size)>>)
      tt == Compose(
              <<resize,
                Step("Normalize_For_Segmentation", stats),
                Step("RandomCrop_For_Segmentation", <<crop_size>>),
                Step("Transpose_For_Segmentation", <<>>),
                Step("random_hflip_fn", <<>>),
                Step("at_least_3d", <<>>)>>)
      tv == Compose(
              <<resize,
                Step("Normalize_For_Segmentation", stats),
                Step("Transpose_For_Segmentation", <<>>)>>)
  IN Tuple(<<tt, tv>>)

\* Each builder keeps no state between calls: a behaviour is a single call.
CallClassificationTransforms ==
  /\ built = NoCall
  /\ \E min_size \in Sizes, max_size \in Sizes, crop_size \in Sizes,
        augment \in Augments, normalize_stats \in StatsArgs :
       built' = [fn |-> "get_classification_transforms", augment |-> augment,
                 ret |-> get_classification_transforms(min_size, max_size, crop_size,
                                                       augment, normalize_stats)]
  /\ UNCHANGED <<loader, iterator, data, raised, ngets, ninits, samplerCall, augmented>>

CallInferenceTransforms ==
  /\ built = NoCall
  /\ \E augment \in Augments, normalize_stats \in StatsArgs :
       built' = [fn |-> "get_inference_transforms", augment |-> augment,
                 ret |-> get_inference_transforms(augment, normalize_stats)]
  /\ UNCHANGED <<loader, iterator, data, raised, ngets, ninits, samplerCall, augmented>>

CallAffinityTransforms ==
  /\ built = NoCall
  /\ \E min_image_size \in Sizes, max_image_size \in Sizes, crop_size \in Sizes,
        overcrop \in BOOLEAN, normalize_stats \in StatsArgs :
       built' = [fn |-> "get_affinity_transforms", augment |-> "",
                 ret |-> get_affinity_transforms(min_image_size, max_image_size, crop_size,
                                                 overcrop, normalize_stats)]
  /\ UNCHANGED <<loader, iterator, data, raised, ngets, ninits, samplerCall, augmented>>

CallSegmentationTransforms ==
  /\ built = NoCall
  /\ \E min_size \in Sizes, max_size \in Sizes, crop_size \in Sizes,
        augment \in Augments, overcrop \in BOOLEAN, normalize_stats \in StatsArgs :
       built' = [fn |-> "get_segmentation_transforms", augment |-> augment,
                 ret |-> get_segmentation_transforms(min_size, max_size, crop_size,
                                                     augment, overcrop, normalize_stats)]
  /\ UNCHANGED <<loader, iterator, data, raised, ngets, ninits, samplerCall, augmented>>

CallCcamTransforms ==
  /\ built = NoCall
  /\ \E image_size \in Sizes, crop_size \in Sizes, normalize_stats \in StatsArgs :
       built' = [fn |-> "get_ccam_transforms", augment |-> "",
                 ret |-> get_ccam_transforms(image_size, crop_size, normalize_stats)]
  /\ UNCHANGED <<loader, iterator, data, raised, ngets, ninits, samplerCall, augmented>>

NextTransforms ==
  \/ CallClassificationTransforms
  \/ CallInferenceTransforms
  \/ CallAffinityTransforms
  \/ CallSegmentationTransforms
  \/ CallCcamTransforms

SpecTransforms == InitIdle /\ [][NextTransforms]_vars

(***************************************************************************)
(* Claims about the transform builders (checked under SpecTransforms).     *)
(***************************************************************************)
\* the four builders the claims name
FourBuilders ==
  {"get_classification_transforms", "get_segmentation_transforms",
   "get_affinity_transforms", "get_ccam_transforms"}

\* the chains a builder returned: the composed pipelines of a tuple, or the
\* single composed pipeline
Chains(ret) ==
  IF ret.type = "tuple"
    THEN { ret.items[i].transforms : i \in 1 .. Len(ret.items) }
    ELSE { ret.transforms }

IsTranspose(step) == step.name \in {"Transpose", "Transpose_For_Segmentation"}

\* the positions of the steps of a chain with the given name
Positions(chain, name) == { i \in 1 .. Len(chain) : chain[i].name = name }

\* a (train, eval) pair of composed pipelines
IsComposePair(ret) ==
  /\ ret.type = "tuple"
  /\ Len(ret.items) = 2
  /\ \A i \in 1 .. 2 : ret.items[i].type = "Compose"

\* C4 as stated: every chain each of the four builders returns finishes
\* with a layout-transposition step.
C4_AllChainsEndWithTranspose ==
  built.fn \in FourBuilders =>
    \A chain \in Chains(built.ret) : IsTranspose(chain[Len(chain)])

\* C4 amended: both chains of get_classification_transforms and of
\* get_segmentation_transforms and the eval chain of get_ccam_transforms
\* finish with the transposition; in the chain of get_affinity_transforms
\* and in the train chain of get_ccam_transforms the transposition is
\* followed by further steps (ResizeMask; random_hflip_fn, at_least_3d).
C4_TransposeLastOrFollowed ==
  /\ built.fn \in {"get_classification_transforms", "get_segmentation_transforms"} =>
       \A i \in 1 .. 2 :
         LET chain == built.ret.items[i].transforms IN IsTranspose(chain[Len(chain)])
  /\ built.fn = "get_ccam_transforms" =>
       LET tt == built.ret.items[1].transforms
           tv == built.ret.items[2].transforms
       IN /\ IsTranspose(tv[Len(tv)])
          /\ IsTranspose(tt[Len(tt) - 2])
          /\ tt[Len(tt) - 1].name = "random_hflip_fn"
          /\ tt[Len(tt)].name = "at_least_3d"
  /\ built.fn = "get_affinity_transforms" =>
       LET tt == built.ret.transforms
       IN /\ IsTranspose(tt[Len(tt) - 1])
          /\ tt[Len(tt)].name = "ResizeMask"

\* C4 witness: a classification call without cutmix whose training chain
\* ends ..., RandomCrop, Transpose.
C4_Witness ==
  /\ built.fn = "get_classification_transforms"
  /\ ~Contains("cutmix", built.augment)
  /\ LET tt == built.ret.items[1].transforms
     IN /\ tt[Len(tt)].name = "Transpose"
        /\ tt[Len(tt) - 1].name = "RandomCrop"

\* C5 as stated: each of the four builders returns a (train, eval) pair of
\* composed pipelines.
C5_AllReturnPairs == built.fn \in FourBuilders => IsComposePair(built.ret)

\* C5 amended: get_classification_transforms, get_segmentation_transforms
\* and get_ccam_transforms return a (train, eval) pair of composed
\* pipelines; get_affinity_transforms returns one composed training
\* pipeline, not a pair.
C5_PairsExceptAffinity ==
  /\ built.fn \in FourBuilders \ {"get_affinity_transforms"} => IsComposePair(built.ret)
  /\ built.fn = "get_affinity_transforms" => built.ret.type = "Compose"

\* C5 witness: a segmentation call returned two composed pipelines that differ.
C5_Witness ==
  /\ built.fn = "get_segmentation_transforms"
  /\ IsComposePair(built.ret)
  /\ Len(built.ret.items[1].transforms) # Len(built.ret.items[2].transforms)

\* C7: with "cutmix" in augment the training chain of
\* get_classification_transforms holds no RandomCrop step; without it the
\* chain holds exactly one, after Normalize and before Transpose.
C7_CutmixOmitsRandomCrop ==
  built.fn = "get_classification_transforms" =>
    LET tt == built.ret.items[1].transforms
        crops == Positions(tt, "RandomCrop")
    IN IF Contains("cutmix", built.augment)
         THEN crops = {}
         ELSE /\ Cardinality(crops) = 1
              /\ Positions(tt, "Normalize") # {}
              /\ Positions(tt, "Transpose") # {}
              /\ \A p \in crops :
                   /\ \A q \in Positions(tt, "Normalize") : q < p
                   /\ \A r \in Positions(tt, "Transpose") : p < r

\* C7 witness: a call with cutmix and other flags built a training chain
\* with Normalize directly before Transpose.
C7_Witness ==
  /\ built.fn = "get_classification_transforms"
  /\ built.augment = "flip_colorjitter_cutmix"
  /\ LET tt == built.ret.items[1].transforms
     IN /\ tt[Len(tt) - 1].name = "Normalize"
        /\ tt[Len(tt)].name = "Transpose"

====
